---- MODULE Spec2Model ----
(***************************************************************************)
(* LavaTools browser client (App component, src/vite.config.ts:187-822):   *)
(* form state, the four JSON-over-HTTP operations and the WebSocket export *)
(* session, as a state machine.  One action per event handler; an action   *)
(* includes the React effects that run on the render it causes, so every   *)
(* state is a settled state.                                               *)
(*                                                                         *)
(* Strings are sequences of tokens: a token is one character or an opaque  *)
(* chunk of text.  The empty string is << >>.                              *)
(***************************************************************************)
EXTENDS Integers, Sequences, FiniteSets, TLC

(* ------------------------------ bounds -------------------------------- *)

\* accepted export clicks in one run
MaxExports == 2
\* lines kept in the export log before the model stops delivering events
MaxLogs == 3
\* HTTP requests sent in one run
MaxRequests == 2
MaxTitleLen == 4

(* ------------------------------ strings ------------------------------- *)

Whitespace == {" ", "\n", "\r", "\t"}

IsBlank(s) == \A i \in 1..Len(s) : s[i] \in Whitespace

\* String.prototype.trim
Trim(s) ==
  IF IsBlank(s) THEN << >>
  ELSE LET first == CHOOSE i \in 1..Len(s) :
                      /\ s[i] \notin Whitespace
                      /\ \A j \in 1..(i-1) : s[j] \in Whitespace
           last  == CHOOSE i \in 1..Len(s) :
                      /\ s[i] \notin Whitespace
                      /\ \A j \in (i+1)..Len(s) : s[j] \in Whitespace
       IN SubSeq(s, first, last)

\* a || b on strings
OrElse(a, b) == IF a # << >> THEN a ELSE b

\* a property left out of a JSON body (undefined)
Undefined == << "<undefined>" >>

\* JavaScript values carried by parsed JSON: string, number, or undefined
JsString(s) == [t |-> "string", s |-> s, n |-> 0]
JsNumber(n) == [t |-> "number", s |-> << >>, n |-> n]
JsUndefined == [t |-> "undefined", s |-> << >>, n |-> 0]

Truthy(v) ==
  \/ v.t = "string" /\ v.s # << >>
  \/ v.t = "number" /\ v.n # 0
  \/ v.t = "boolean" /\ v.n = 1
  \/ v.t = "object"

\* string concatenation  prefix + value
NumberText(n) == << "<number>" >>
ToText(v) == IF v.t = "string" THEN v.s
             ELSE IF v.t = "number" THEN NumberText(v.n)
             ELSE IF v.t = "boolean" THEN << IF v.n = 1 THEN "true" ELSE "false" >>
             ELSE IF v.t = "object" THEN << "[object Object]" >>
             ELSE << "undefined" >>

Min(a, b) == IF a < b THEN a ELSE b
Max(a, b) == IF a > b THEN a ELSE b

(* ------------------------------- state -------------------------------- *)

VARIABLES
  \* conversion
  md, html, engine, busy, tab, error,
  \* WordPress connection and publication
  wpUrl, wpUsername, wpAppPassword, wpAdminPassword,
  wpTesting, wpConnected, wpMessage, wpError,
  postTitle, postSlug, postStatus,
  publishBusy, publishMessage, publishError, slugTouched,
  \* WooCommerce export over WebSocket
  exportBusy, exportMessage, exportError, exportLogs, exportProgress, wsRef,
  \* subscriptions preview
  subscriptionsBusy, subscriptionsMessage, subscriptionsError,
  subscriptionsUrl, subscriptionsHtml,
  \* environment: build-time backend URL, the WebSockets created so far,
  \* the HTTP requests in flight, the files handed to the browser
  backend, sockets, requests, downloads,
  \* history: accepted export clicks, requests sent, last handler run,
  \* last HTTP response handled
  exportClicks, requestsSent, lastEvent, lastResponse

convertVars == << md, html, engine, busy, tab, error >>
credVars    == << wpUrl, wpUsername, wpAppPassword, wpAdminPassword >>
wpVars      == << wpTesting, wpConnected, wpMessage, wpError >>
postVars    == << postTitle, postSlug, postStatus, slugTouched >>
publishVars == << publishBusy, publishMessage, publishError >>
exportVars  == << exportBusy, exportMessage, exportError, exportLogs,
                  exportProgress, wsRef >>
subsVars    == << subscriptionsBusy, subscriptionsMessage, subscriptionsError,
                  subscriptionsUrl, subscriptionsHtml >>
envVars     == << backend, sockets, requests, downloads >>
histVars    == << exportClicks, requestsSent, lastEvent, lastResponse >>

vars == << convertVars, credVars, wpVars, postVars, publishVars, exportVars,
           subsVars, envVars, histVars >>

\* the credential fields as the current render sees them
Form == [wpUrl |-> wpUrl, wpUsername |-> wpUsername,
         wpAppPassword |-> wpAppPassword, wpAdminPassword |-> wpAdminPassword]

normalisedWpUrl(f) == Trim(f.wpUrl)

(* --------------------- log lines and fixed messages ------------------- *)

LogConnected     == << "[ok] Connecte au serveur, demarrage de l'export..." >>
LogBullet        == << "* " >>
LogCross         == << "[x] " >>
LogDoneOk        == << "[ok] Export termine et telecharge." >>
LogDoneInvalid   == << "[x] Reponse finale invalide." >>
LogWsError       == << "[x] WebSocket error" >>
LogWsClosed      == << "[i] Connexion WebSocket fermee." >>

ExportMissingFields == << "Veuillez renseigner l'URL, l'identifiant et votre mot de passe WordPress (non application password)." >>
ExportErrorDefault  == << "Erreur pendant l'export." >>
ExportErrorWord     == << "Erreur" >>
ExportDownloaded    == << "Export telecharge : " >>
ExportInvalidFinal  == << "Reponse finale invalide (pas de donnees)." >>
ExportWsFailure     == << "Erreur de communication WebSocket." >>
ExportStartFailure  == << "Impossible de demarrer l'export en WebSocket." >>
DefaultFilename     == << "woocommerce-subscriptions.csv" >>
DefaultContentType  == << "text/csv" >>

(* ------------------------- backend and WebSocket ---------------------- *)

\* import.meta.env.VITE_API_URL || 'http://localhost:8000'
DefaultBackend == [href |-> "http://localhost:8000", parses |-> TRUE,
                   protocol |-> "http:", host |-> "localhost:8000",
                   pathname |-> << "/" >>]
BrokenBackend  == [href |-> "backend.internal", parses |-> FALSE,
                   protocol |-> "", host |-> "", pathname |-> << >>]
BackendUrls == {DefaultBackend, BrokenBackend}

ExportPath == << "/", "ws/wordpress/subscriptions/export" >>

\* new URL(httpBase) throws a TypeError when httpBase is not an absolute URL
toWsUrl(httpBase, path) ==
  IF ~httpBase.parses THEN [threw |-> TRUE, message |-> << "Invalid URL" >>,
                            protocol |-> "", host |-> "", pathname |-> << >>]
  ELSE LET p == IF Len(path) > 0 /\ path[1] = "/" THEN path ELSE << "/" >> \o path
           n == Len(httpBase.pathname)
           basePath == IF n > 0 /\ httpBase.pathname[n] = "/"
                       THEN SubSeq(httpBase.pathname, 1, n - 1)
                       ELSE httpBase.pathname
       IN [threw |-> FALSE, message |-> << >>,
           protocol |-> IF httpBase.protocol = "https:" THEN "wss:" ELSE "ws:",
           host |-> httpBase.host, pathname |-> basePath \o p]

\* the message of the exception caught at line 547, or << >> when
\* toWsUrl and new WebSocket(wsUrl) both return
ExportStartException(b) == toWsUrl(b, ExportPath).message

\* error instanceof Error with a message, else the fallback
resolveUnknownError(message, fallback) ==
  IF message # << >> THEN message ELSE fallback

\* mutant: the site URL sent as typed
CredentialsMessage_Untrimmed(f) ==
  [baseUrl |-> f.wpUrl, username |-> f.wpUsername,
   password |-> f.wpAdminPassword, browser |-> "firefox", headless |-> TRUE]

\* JSON.stringify({baseUrl, username, password, browser, headless})
CredentialsMessage(f) ==
  [baseUrl |-> normalisedWpUrl(f), username |-> f.wpUsername,
   password |-> f.wpAdminPassword, browser |-> "firefox", headless |-> TRUE]

\* new WebSocket(wsUrl): the handlers close over the render's credentials.
\* finished records that an 'error' or 'done' message reached the handler.
NewSocket(f) ==
  [readyState |-> "CONNECTING", closeCalled |-> FALSE,
   closure |-> f, sent |-> << >>, finished |-> FALSE]

\* WebSocket.close(): starts the closing handshake unless already closing
CloseSocket(sock) ==
  [sock EXCEPT !.closeCalled = TRUE,
               !.readyState = IF @ \in {"CONNECTING", "OPEN"} THEN "CLOSING" ELSE @]

\* try { ws.close() } catch {} in the message and error handlers
HandlerClose(sock) == CloseSocket(sock)

\* try { wsRef?.close() } catch {} : the cleanup of the wsRef effect
CleanupWsRef(socks, ref) ==
  IF ref = 0 THEN socks ELSE [socks EXCEPT ![ref] = CloseSocket(socks[ref])]

\* mutant: setExportLogs(prev => [line, ...prev])
appendLog_Prepend(logs, line) == << line >> \o logs

appendLog(logs, line) == Append(logs, line)

(* -------------------------- WebSocket messages ------------------------ *)

Base64Alphabet == {"Q", "U", "k", "0", "9", "+", "/"}

\* atob: forgiving-base64 decode, throws InvalidCharacterError
AtobThrows(data) ==
  LET stripped == SelectSeq(data, LAMBDA c : c \notin Whitespace)
      n == Len(stripped)
      unpadded ==
        IF n % 4 = 0 /\ n >= 2 /\ stripped[n] = "=" /\ stripped[n-1] = "="
          THEN SubSeq(stripped, 1, n - 2)
        ELSE IF n % 4 = 0 /\ n >= 1 /\ stripped[n] = "="
          THEN SubSeq(stripped, 1, n - 1)
        ELSE stripped
  IN \/ Len(unpadded) % 4 = 1
     \/ \E i \in 1..Len(unpadded) : unpadded[i] \notin Base64Alphabet

\* ev.data with the result of JSON.parse(ev.data):
\*   parsed = "throws" | "value" (null, scalar) | "array" | "object"
WsText(raw, parsed) ==
  [isText |-> TRUE, raw |-> raw, parsed |-> parsed, type |-> JsUndefined,
   message |-> JsUndefined, pct |-> JsUndefined, data |-> JsUndefined,
   filename |-> JsUndefined, contentType |-> JsUndefined]

WsObject(type, message, pct, data, filename) ==
  [isText |-> TRUE, raw |-> << "{", type, "}" >>, parsed |-> "object",
   type |-> JsString(<< type >>), message |-> message, pct |-> pct,
   data |-> data, filename |-> filename, contentType |-> JsUndefined]

WsBinary == [WsText(<< >>, "throws") EXCEPT !.isText = FALSE]

ValidBase64   == << "Q", "U", "k", "=" >>
InvalidBase64 == << "Q", "%" >>

ProgressMessages ==
  { WsObject("progress", JsString(<< "m" >>), JsNumber(50), JsUndefined, JsUndefined),
    WsObject("step", JsUndefined, JsNumber(150), JsUndefined, JsUndefined),
    WsObject("progress", JsString(<< " " >>), JsNumber(-5), JsUndefined, JsUndefined),
    WsObject("step", JsUndefined, JsString(<< "50" >>), JsUndefined, JsUndefined) }

ErrorMessages ==
  { WsObject("error", JsString(<< "boom" >>), JsUndefined, JsUndefined, JsUndefined),
    WsObject("error", JsUndefined, JsUndefined, JsUndefined, JsUndefined) }

DoneMessages ==
  { WsObject("done", JsUndefined, JsUndefined, JsString(ValidBase64), JsString(<< "f.csv" >>)),
    WsObject("done", JsUndefined, JsUndefined, JsString(ValidBase64), JsUndefined),
    WsObject("done", JsUndefined, JsUndefined, JsString(InvalidBase64), JsUndefined),
    WsObject("done", JsUndefined, JsUndefined, JsString(<< >>), JsUndefined) }

UnrecognisedMessages ==
  { WsText(<< " ", "h", "i", " " >>, "throws"),
    WsText(<< " ", "\n" >>, "throws"),
    WsText(<< " ", "7" >>, "value"),
    WsText(<< "[", "1", "]" >>, "array"),
    WsObject("other", JsString(<< "m" >>), JsNumber(50), JsString(ValidBase64), JsUndefined),
    WsBinary }

WsMessages == ProgressMessages \cup ErrorMessages \cup DoneMessages
                \cup UnrecognisedMessages

\* one message of each kind the handler tells apart
SessionMessages ==
  { WsObject("progress", JsString(<< "m" >>), JsNumber(50), JsUndefined, JsUndefined),
    WsObject("error", JsString(<< "boom" >>), JsUndefined, JsUndefined, JsUndefined),
    WsObject("done", JsUndefined, JsUndefined, JsString(ValidBase64), JsString(<< "f.csv" >>)),
    WsObject("done", JsUndefined, JsUndefined, JsString(InvalidBase64), JsUndefined),
    WsText(<< " ", "h", "i", " " >>, "throws") }

\* msg && typeof msg === 'object' && msg.type === t
HasType(m, t) ==
  m.parsed \in {"object", "array"} /\ m.type = JsString(<< t >>)

IsProgress(m) == HasType(m, "progress") \/ HasType(m, "step")
IsError(m)    == HasType(m, "error")
IsDone(m)     == HasType(m, "done")
IsRecognised(m) == IsProgress(m) \/ IsError(m) \/ IsDone(m)
HasData(m)    == m.data.t = "string" /\ m.data.s # << >>

(* ------------------------------- events ------------------------------- *)

NoMessage == WsText(<< >>, "none")

Event(op, s, m) == [op |-> op, s |-> s, m |-> m]

otherThanExport == << convertVars, credVars, wpVars, postVars, publishVars,
                      subsVars, backend, requests, requestsSent, lastResponse >>

(* --------------------- export over WebSocket: click ------------------- *)

\* mutant: either password is enough
ExportFieldsMissing_EitherPassword(f) ==
  \/ f.wpUrl = << >>
  \/ f.wpUsername = << >>
  \/ f.wpAppPassword = << >> /\ f.wpAdminPassword = << >>

\* !wpUrl || !wpUsername || !wpAdminPassword
ExportFieldsMissing(f) ==
  f.wpUrl = << >> \/ f.wpUsername = << >> \/ f.wpAdminPassword = << >>

\* mutant: the export button is never disabled
ExportButtonEnabled_Always == TRUE

\* <button onClick={exportSubscriptions} disabled={exportBusy}>
ExportButtonEnabled == ~exportBusy

exportSubscriptions ==
  /\ ExportButtonEnabled
  /\ lastEvent' = Event("exportSubscriptions", 0, NoMessage)
  /\ UNCHANGED << otherThanExport, downloads >>
  /\ IF ExportFieldsMissing(Form)
     THEN /\ exportError' = ExportMissingFields
          /\ exportMessage' = << >>
          /\ UNCHANGED << exportBusy, exportLogs, exportProgress, wsRef,
                          sockets, exportClicks >>
     ELSE /\ exportClicks < MaxExports
          /\ exportClicks' = exportClicks + 1
          /\ exportMessage' = << >>
          /\ exportLogs' = << >>
          /\ exportProgress' = 0
          /\ IF ExportStartException(backend) = << >>
             THEN \* new WebSocket(wsUrl); setWsRef(ws); the effect's cleanup
                  \* closes the socket wsRef held before
                  /\ sockets' = Append(CleanupWsRef(sockets, wsRef), NewSocket(Form))
                  /\ wsRef' = Len(sockets) + 1
                  /\ exportBusy' = TRUE
                  /\ exportError' = << >>
             ELSE /\ exportError' = resolveUnknownError(ExportStartException(backend),
                                                        ExportStartFailure)
                  /\ exportBusy' = FALSE
                  /\ UNCHANGED << sockets, wsRef >>

(* ------------------- export over WebSocket: handlers ------------------ *)

\* ws.onopen
OnOpen(s) ==
  /\ exportLogs' = appendLog(exportLogs, LogConnected)
  /\ sockets' = [sockets EXCEPT ![s].readyState = "OPEN",
                                ![s].sent = Append(@, CredentialsMessage(sockets[s].closure))]
  /\ UNCHANGED << exportBusy, exportMessage, exportError, exportProgress,
                  wsRef, downloads >>

\* mutant: a progress of 100 ends the export
OnProgress_FinishesAtFull(s, m) ==
  /\ exportLogs' = IF m.message.t = "string" /\ Trim(m.message.s) # << >>
                   THEN appendLog(exportLogs, LogBullet \o m.message.s)
                   ELSE exportLogs
  /\ exportProgress' = IF m.pct.t = "number"
                       THEN Max(0, Min(100, m.pct.n))
                       ELSE exportProgress
  /\ exportBusy' = IF m.pct.t = "number" /\ m.pct.n >= 100 THEN FALSE ELSE exportBusy
  /\ UNCHANGED << exportMessage, exportError, wsRef, sockets, downloads >>

\* mutant: setExportProgress(msg.pct) without Math.max / Math.min
OnProgress_Unclamped(s, m) ==
  /\ exportLogs' = IF m.message.t = "string" /\ Trim(m.message.s) # << >>
                   THEN appendLog(exportLogs, LogBullet \o m.message.s)
                   ELSE exportLogs
  /\ exportProgress' = IF m.pct.t = "number" THEN m.pct.n ELSE exportProgress
  /\ UNCHANGED << exportBusy, exportMessage, exportError, wsRef, sockets,
                  downloads >>

\* ws.onmessage, type 'progress' or 'step'
OnProgress(s, m) ==
  /\ exportLogs' = IF m.message.t = "string" /\ Trim(m.message.s) # << >>
                   THEN appendLog(exportLogs, LogBullet \o m.message.s)
                   ELSE exportLogs
  /\ exportProgress' = IF m.pct.t = "number"
                       THEN Max(0, Min(100, m.pct.n))
                       ELSE exportProgress
  /\ UNCHANGED << exportBusy, exportMessage, exportError, wsRef, sockets,
                  downloads >>

\* ws.onmessage, type 'error'
OnErrorMessage(s, m) ==
  /\ exportError' = IF m.message.t = "string" THEN m.message.s
                    ELSE ExportErrorDefault
  /\ exportLogs' = appendLog(exportLogs,
                     LogCross \o (IF Truthy(m.message) THEN ToText(m.message)
                                  ELSE ExportErrorWord))
  /\ exportBusy' = FALSE
  /\ sockets' = [sockets EXCEPT ![s] = [HandlerClose(@) EXCEPT !.finished = TRUE]]
  /\ UNCHANGED << exportMessage, exportProgress, wsRef, downloads >>

\* downloadBase64File(base64Data, filename, contentType)
downloadBase64File(base64Data, filename, contentType) ==
  Append(downloads, [data |-> base64Data, filename |-> filename,
                     contentType |-> contentType])

\* ws.onmessage, type 'done'
OnDone(s, m) ==
  LET filename == IF Truthy(m.filename) THEN ToText(m.filename)
                  ELSE DefaultFilename
      contentType == IF Truthy(m.contentType) THEN ToText(m.contentType)
                     ELSE DefaultContentType
  IN IF HasData(m) /\ AtobThrows(m.data.s)
     THEN \* atob throws InvalidCharacterError out of the handler: nothing
          \* after line 517 runs
          /\ sockets' = [sockets EXCEPT ![s].finished = TRUE]
          /\ UNCHANGED << exportBusy, exportMessage, exportError, exportLogs,
                          exportProgress, wsRef, downloads >>
     ELSE /\ IF HasData(m)
             THEN /\ downloads' = downloadBase64File(m.data.s, filename, contentType)
                  /\ exportMessage' = ExportDownloaded \o filename
                  /\ exportLogs' = appendLog(exportLogs, LogDoneOk)
                  /\ UNCHANGED exportError
             ELSE /\ exportError' = ExportInvalidFinal
                  /\ exportLogs' = appendLog(exportLogs, LogDoneInvalid)
                  /\ UNCHANGED << exportMessage, downloads >>
          /\ exportProgress' = 100
          /\ exportBusy' = FALSE
          /\ sockets' = [sockets EXCEPT ![s] = [HandlerClose(@) EXCEPT !.finished = TRUE]]
          /\ UNCHANGED wsRef

\* ws.onmessage, anything else: raw text to the log
OnRaw(s, m) ==
  /\ exportLogs' = IF m.isText /\ Trim(m.raw) # << >>
                   THEN appendLog(exportLogs, Trim(m.raw))
                   ELSE exportLogs
  /\ UNCHANGED << exportBusy, exportMessage, exportError, exportProgress,
                  wsRef, sockets, downloads >>

\* ws.onmessage
OnMessage(s, m) ==
  IF IsProgress(m) THEN OnProgress(s, m)
  ELSE IF IsError(m) THEN OnErrorMessage(s, m)
  ELSE IF IsDone(m) THEN OnDone(s, m)
  ELSE OnRaw(s, m)

\* mutant: the error handler reconnects
OnErrorThenClose_Reconnect(s) ==
  /\ exportLogs' = appendLog(appendLog(exportLogs, LogWsError), LogWsClosed)
  /\ exportError' = ExportWsFailure
  /\ exportBusy' = TRUE
  /\ sockets' = Append([sockets EXCEPT ![s] = HandlerClose([@ EXCEPT !.readyState = "CLOSED"])],
                       NewSocket(sockets[s].closure))
  /\ wsRef' = Len(sockets) + 1
  /\ UNCHANGED << exportMessage, exportProgress, downloads >>

\* ws.onerror then ws.onclose: the browser fires both in one task when the
\* connection fails, with readyState already CLOSED
OnErrorThenClose(s) ==
  /\ exportLogs' = appendLog(appendLog(exportLogs, LogWsError), LogWsClosed)
  /\ exportError' = ExportWsFailure
  /\ exportBusy' = FALSE
  /\ sockets' = [sockets EXCEPT ![s] = HandlerClose([@ EXCEPT !.readyState = "CLOSED"])]
  /\ UNCHANGED << exportMessage, exportProgress, wsRef, downloads >>

\* ws.onclose
OnClose(s) ==
  /\ exportLogs' = appendLog(exportLogs, LogWsClosed)
  /\ sockets' = [sockets EXCEPT ![s].readyState = "CLOSED"]
  /\ UNCHANGED << exportBusy, exportMessage, exportError, exportProgress,
                  wsRef, downloads >>

(* ------------- export over WebSocket: what the browser delivers ------- *)

Deliverable(s) == s \in 1..Len(sockets) /\ Len(exportLogs) < MaxLogs

WsOpen(s) ==
  /\ Deliverable(s)
  /\ sockets[s].readyState = "CONNECTING"
  /\ OnOpen(s)
  /\ lastEvent' = Event("open", s, NoMessage)
  /\ UNCHANGED << otherThanExport, exportClicks >>

WsMessage(s, m) ==
  /\ Deliverable(s)
  /\ sockets[s].readyState = "OPEN"
  /\ OnMessage(s, m)
  /\ lastEvent' = Event("message", s, m)
  /\ UNCHANGED << otherThanExport, exportClicks >>

WsFail(s) ==
  /\ Deliverable(s)
  /\ sockets[s].readyState \in {"CONNECTING", "OPEN", "CLOSING"}
  /\ OnErrorThenClose(s)
  /\ lastEvent' = Event("error", s, NoMessage)
  /\ UNCHANGED << otherThanExport, exportClicks >>

WsClose(s) ==
  /\ Deliverable(s)
  /\ sockets[s].readyState \in {"OPEN", "CLOSING"}
  /\ OnClose(s)
  /\ lastEvent' = Event("close", s, NoMessage)
  /\ UNCHANGED << otherThanExport, exportClicks >>

(* --------------------------- credential fields ------------------------ *)

PaddedUrl      == << " ", "https://site.example", " " >>
SiteUrls       == { << >>, << " " >>, PaddedUrl }
Usernames      == { << >>, << "admin" >> }
AppPasswords   == { << >>, << "app-pw-1" >>, << "app-pw-2" >> }
AdminPasswords == { << >>, << "admin-pw" >> }

\* mutant: the effect leaves the export log
CredentialsEffect_KeepsLogs ==
  /\ wpConnected' = FALSE
  /\ wpMessage' = << >>
  /\ wpError' = << >>
  /\ exportMessage' = << >>
  /\ exportError' = << >>
  /\ exportLogs' = exportLogs
  /\ exportProgress' = 0
  /\ subscriptionsMessage' = << >>
  /\ subscriptionsError' = << >>
  /\ subscriptionsHtml' = << >>
  /\ subscriptionsUrl' = << >>

\* useEffect(..., [wpUrl, wpUsername, wpAppPassword, wpAdminPassword])
CredentialsEffect ==
  /\ wpConnected' = FALSE
  /\ wpMessage' = << >>
  /\ wpError' = << >>
  /\ exportMessage' = << >>
  /\ exportError' = << >>
  /\ exportLogs' = << >>
  /\ exportProgress' = 0
  /\ subscriptionsMessage' = << >>
  /\ subscriptionsError' = << >>
  /\ subscriptionsHtml' = << >>
  /\ subscriptionsUrl' = << >>

credentialFrame == << convertVars, postVars, publishVars, wpTesting, exportBusy,
                      wsRef, subscriptionsBusy, envVars, exportClicks,
                      requestsSent, lastResponse >>

\* onChange of the site URL input
SetWpUrl(v) ==
  /\ v # wpUrl
  /\ wpUrl' = v
  /\ CredentialsEffect
  /\ lastEvent' = Event("setWpUrl", 0, NoMessage)
  /\ UNCHANGED << wpUsername, wpAppPassword, wpAdminPassword, credentialFrame >>

\* onChange of the username input
SetWpUsername(v) ==
  /\ v # wpUsername
  /\ wpUsername' = v
  /\ CredentialsEffect
  /\ lastEvent' = Event("setWpUsername", 0, NoMessage)
  /\ UNCHANGED << wpUrl, wpAppPassword, wpAdminPassword, credentialFrame >>

\* onChange of the application-password input
SetWpAppPassword(v) ==
  /\ v # wpAppPassword
  /\ wpAppPassword' = v
  /\ CredentialsEffect
  /\ lastEvent' = Event("setWpAppPassword", 0, NoMessage)
  /\ UNCHANGED << wpUrl, wpUsername, wpAdminPassword, credentialFrame >>

\* onChange of the admin-password input
SetWpAdminPassword(v) ==
  /\ v # wpAdminPassword
  /\ wpAdminPassword' = v
  /\ CredentialsEffect
  /\ lastEvent' = Event("setWpAdminPassword", 0, NoMessage)
  /\ UNCHANGED << wpUrl, wpUsername, wpAppPassword, credentialFrame >>

EditCredentials(urls, usernames, appPasswords, adminPasswords) ==
  \/ \E v \in urls : SetWpUrl(v)
  \/ \E v \in usernames : SetWpUsername(v)
  \/ \E v \in appPasswords : SetWpAppPassword(v)
  \/ \E v \in adminPasswords : SetWpAdminPassword(v)

(* ------------------------- HTTP: JSON responses ----------------------- *)

JsBoolean(b) == [t |-> "boolean", s |-> << >>, n |-> IF b THEN 1 ELSE 0]
JsObject     == [t |-> "object", s |-> << >>, n |-> 0]

FieldNames == {"success", "message", "error", "detail", "link", "url",
               "permalink", "markdown", "html", "engine", "stats",
               "base_url", "baseUrl", "admin_path", "adminPath"}

NoFields == [f \in FieldNames |-> JsUndefined]

\* the value JSON.parse returns: null, a string, another scalar, an array
\* or an object with its fields
JsonNull      == [k |-> "null", s |-> << >>, o |-> NoFields]
JsonString(s) == [k |-> "string", s |-> s, o |-> NoFields]
JsonArray     == [k |-> "array", s |-> << >>, o |-> NoFields]
JsonObject(o) == [k |-> "object", s |-> << >>, o |-> o @@ NoFields]

\* fetch rejected (network failure), or a Response with its status and body;
\* valid tells whether JSON.parse(raw) returns data or throws
NetworkFailure == [failed |-> TRUE, ok |-> FALSE, raw |-> << >>,
                   valid |-> FALSE, data |-> JsonNull]
Response(ok, raw, valid, data) ==
  [failed |-> FALSE, ok |-> ok, raw |-> raw, valid |-> valid, data |-> data]
JsonResponse(ok, data) == Response(ok, << "<json>" >>, TRUE, data)

FetchFailedMessage == << "Failed to fetch" >>

\* typeof value === 'object' && value !== null && !Array.isArray(value)
isJsonObject(value) == value.k = "object"

\* mutant: stats is not looked at
isConvertResponse_NoStats(data) ==
  /\ isJsonObject(data)
  /\ data.o["markdown"].t = "string"
  /\ data.o["html"].t = "string"
  /\ data.o["engine"].t = "string"

isConvertResponse(data) ==
  /\ isJsonObject(data)
  /\ data.o["markdown"].t = "string"
  /\ data.o["html"].t = "string"
  /\ data.o["engine"].t = "string"
  /\ data.o["stats"].t = "object"

\* the first of message, error, detail that is a string and not blank
FirstMessageField(o, keys) ==
  IF \E i \in 1..Len(keys) : o[keys[i]].t = "string" /\ Trim(o[keys[i]].s) # << >>
  THEN LET i == CHOOSE i \in 1..Len(keys) :
                  /\ o[keys[i]].t = "string" /\ Trim(o[keys[i]].s) # << >>
                  /\ \A j \in 1..(i-1) :
                       ~(o[keys[j]].t = "string" /\ Trim(o[keys[j]].s) # << >>)
       IN Trim(o[keys[i]].s)
  ELSE << >>

\* << >> stands for undefined
pickBackendMessage(payload) ==
  IF payload.k = "string" THEN Trim(payload.s)
  ELSE IF isJsonObject(payload)
       THEN FirstMessageField(payload.o, << "message", "error", "detail" >>)
       ELSE << >>

readJsonPayload(res) ==
  IF res.raw = << >> THEN [data |-> JsonNull, raw |-> << >>]
  ELSE IF res.valid THEN [data |-> res.data, raw |-> res.raw]
  ELSE [data |-> JsonNull, raw |-> res.raw]

\* mutant: the raw body before the fields of the payload
normaliseErrorMessage_RawFirst(payload, raw, fallback) ==
  OrElse(Trim(raw), OrElse(pickBackendMessage(payload), fallback))

normaliseErrorMessage(payload, raw, fallback) ==
  OrElse(pickBackendMessage(payload), OrElse(Trim(raw), fallback))

\* isJsonObject(data) ? data : null
ParsedObject(data) == IF isJsonObject(data) THEN data ELSE JsonNull

\* a || b || ... on parsed fields; JsUndefined when none is truthy
FirstTruthy(o, keys) ==
  IF \E i \in 1..Len(keys) : Truthy(o[keys[i]])
  THEN o[keys[CHOOSE i \in 1..Len(keys) :
                 Truthy(o[keys[i]]) /\ \A j \in 1..(i-1) : ~Truthy(o[keys[j]])]]
  ELSE JsUndefined

(* --------------------------- HTTP: requests --------------------------- *)

BodyFields == {"siteUrl", "url", "baseUrl", "base_url", "username", "user",
               "applicationPassword", "password", "title", "status",
               "markdown", "html", "content", "slug", "file"}

EmptyBody == [f \in BodyFields |-> Undefined]

\* the request with the render that sent it (the handler's closure)
Request(op, body, f) == [op |-> op, body |-> body @@ EmptyBody, closure |-> f]

InFlight(op) == {r \in requests : r.op = op}

\* mutant: the admin password takes precedence
buildWordpressApiPayload_AdminFirst(f) ==
  LET password == OrElse(f.wpAdminPassword, f.wpAppPassword)
  IN [siteUrl |-> normalisedWpUrl(f),
      url |-> normalisedWpUrl(f),
      baseUrl |-> normalisedWpUrl(f),
      username |-> f.wpUsername,
      user |-> f.wpUsername,
      applicationPassword |-> OrElse(f.wpAppPassword, Undefined),
      password |-> OrElse(password, Undefined)]

buildWordpressApiPayload(f) ==
  LET password == OrElse(f.wpAppPassword, f.wpAdminPassword)
  IN [siteUrl |-> normalisedWpUrl(f),
      url |-> normalisedWpUrl(f),
      baseUrl |-> normalisedWpUrl(f),
      username |-> f.wpUsername,
      user |-> f.wpUsername,
      applicationPassword |-> OrElse(f.wpAppPassword, Undefined),
      password |-> OrElse(password, Undefined)]

\* !wpUrl || !wpUsername || (!wpAppPassword && !wpAdminPassword)
ApiFieldsMissing(f) ==
  \/ f.wpUrl = << >>
  \/ f.wpUsername = << >>
  \/ f.wpAppPassword = << >> /\ f.wpAdminPassword = << >>

(* ------------------------ HTTP: connection test ----------------------- *)

WpConnectFailed    == << "Connexion echouee" >>

otherThanConnect == << convertVars, credVars, postVars, publishVars, exportVars,
                       subsVars, backend, sockets, downloads, exportClicks >>

\* testWordpressConnection up to the fetch; the button is disabled while
\* wpTesting
testWordpressConnection ==
  /\ ~wpTesting
  /\ lastEvent' = Event("testWordpressConnection", 0, NoMessage)
  /\ UNCHANGED << otherThanConnect, lastResponse >>
  /\ IF ApiFieldsMissing(Form)
     THEN /\ wpError' =
               << "Veuillez renseigner l'URL, l'identifiant et un mot de passe ou application password." >>
          /\ wpMessage' = << >>
          /\ UNCHANGED << wpTesting, wpConnected, requests, requestsSent >>
     ELSE /\ requestsSent < MaxRequests
          /\ requestsSent' = requestsSent + 1
          /\ wpTesting' = TRUE
          /\ wpConnected' = FALSE
          /\ wpMessage' = << >>
          /\ wpError' = << >>
          /\ requests' = requests \cup
               {Request("connect", buildWordpressApiPayload(Form), Form)}

\* mutant: success must be truthy, if (!res.ok || !parsed?.success)
ApiFailure_RequiresSuccess(res, fallback) ==
  LET payload == readJsonPayload(res)
      parsed  == ParsedObject(payload.data)
  IN IF res.failed THEN FetchFailedMessage
     ELSE IF ~res.ok \/ ~Truthy(parsed.o["success"])
          THEN normaliseErrorMessage(parsed, payload.raw, fallback)
          ELSE << >>

\* what the try block throws, or << >> when it completes
ApiFailure(res, fallback) ==
  LET payload == readJsonPayload(res)
      parsed  == ParsedObject(payload.data)
  IN IF res.failed THEN FetchFailedMessage
     ELSE IF ~res.ok \/ parsed.o["success"] = JsBoolean(FALSE)
          THEN normaliseErrorMessage(parsed, payload.raw, fallback)
          ELSE << >>

\* mutant: setWpTesting(false) at the end of the try block, not in finally
ConnectResponse_NoFinally(r, res) ==
  /\ r \in InFlight("connect")
  /\ requests' = requests \ {r}
  /\ lastEvent' = Event("connectResponse", 0, NoMessage)
  /\ lastResponse' = res
  /\ UNCHANGED << otherThanConnect, requestsSent >>
  /\ LET parsed == ParsedObject(readJsonPayload(res).data)
         thrown == ApiFailure(res, WpConnectFailed)
     IN IF thrown = << >>
        THEN /\ wpConnected' = TRUE
             /\ wpMessage' = IF Truthy(parsed.o["message"])
                             THEN ToText(parsed.o["message"])
                             ELSE << "Connexion a WordPress reussie." >>
             /\ wpTesting' = FALSE
             /\ UNCHANGED wpError
        ELSE /\ wpError' = resolveUnknownError(thrown, << "Impossible de se connecter a WordPress." >>)
             /\ UNCHANGED << wpConnected, wpMessage, wpTesting >>

\* testWordpressConnection from the response on: try, catch, finally
ConnectResponse(r, res) ==
  /\ r \in InFlight("connect")
  /\ requests' = requests \ {r}
  /\ lastEvent' = Event("connectResponse", 0, NoMessage)
  /\ lastResponse' = res
  /\ UNCHANGED << otherThanConnect, requestsSent >>
  /\ LET parsed == ParsedObject(readJsonPayload(res).data)
         thrown == ApiFailure(res, WpConnectFailed)
     IN IF thrown = << >>
        THEN /\ wpConnected' = TRUE
             /\ wpMessage' = IF Truthy(parsed.o["message"])
                             THEN ToText(parsed.o["message"])
                             ELSE << "Connexion a WordPress reussie." >>
             /\ UNCHANGED wpError
        ELSE /\ wpError' = resolveUnknownError(thrown, << "Impossible de se connecter a WordPress." >>)
             /\ UNCHANGED << wpConnected, wpMessage >>
  /\ wpTesting' = FALSE

(* --------------------------- HTTP: publication ------------------------ *)

PublishFailed == << "Publication echouee" >>

otherThanPublish == << convertVars, credVars, wpVars, postVars, exportVars,
                       subsVars, backend, sockets, downloads, exportClicks >>

PublishPayload(f) ==
  [title |-> postTitle, status |-> << postStatus >>, markdown |-> md,
   html |-> html, content |-> html,
   slug |-> IF postSlug # << >> THEN postSlug ELSE Undefined]
    @@ buildWordpressApiPayload(f)

\* publishToWordpress up to the fetch; the button is disabled while
\* publishBusy
publishToWordpress ==
  /\ ~publishBusy
  /\ lastEvent' = Event("publishToWordpress", 0, NoMessage)
  /\ UNCHANGED << otherThanPublish, lastResponse >>
  /\ IF md = << >> /\ html = << >>
     THEN /\ publishError' = << "Convertissez un document avant de publier sur WordPress." >>
          /\ publishMessage' = << >>
          /\ UNCHANGED << publishBusy, requests, requestsSent >>
     ELSE IF ApiFieldsMissing(Form)
     THEN /\ publishError' =
               << "Veuillez renseigner les informations de connexion WordPress (identifiant + mot de passe ou application password)." >>
          /\ publishMessage' = << >>
          /\ UNCHANGED << publishBusy, requests, requestsSent >>
     ELSE /\ requestsSent < MaxRequests
          /\ requestsSent' = requestsSent + 1
          /\ publishBusy' = TRUE
          /\ publishMessage' = << >>
          /\ publishError' = << >>
          /\ requests' = requests \cup
               {Request("publish", PublishPayload(Form), Form)}

\* publishToWordpress from the response on: try, catch, finally
PublishResponse(r, res) ==
  /\ r \in InFlight("publish")
  /\ requests' = requests \ {r}
  /\ lastEvent' = Event("publishResponse", 0, NoMessage)
  /\ lastResponse' = res
  /\ UNCHANGED << otherThanPublish, requestsSent >>
  /\ LET parsed == ParsedObject(readJsonPayload(res).data)
         thrown == ApiFailure(res, PublishFailed)
         link   == FirstTruthy(parsed.o, << "link", "url", "permalink" >>)
     IN IF thrown = << >>
        THEN /\ publishMessage' =
                  IF Truthy(link) THEN << "Article publie : " >> \o ToText(link)
                  ELSE IF Truthy(parsed.o["message"])
                       THEN ToText(parsed.o["message"])
                       ELSE << "Article publie avec succes sur WordPress." >>
             /\ UNCHANGED publishError
        ELSE /\ publishError' = resolveUnknownError(thrown, << "Impossible de publier sur WordPress." >>)
             /\ UNCHANGED publishMessage
  /\ publishBusy' = FALSE

(* ---------------------- HTTP: subscriptions preview ------------------- *)

SubsFailed == << "Recuperation echouee" >>

otherThanSubs == << convertVars, credVars, wpVars, postVars, publishVars,
                    exportVars, backend, sockets, downloads, exportClicks >>

\* mutant: the preview authenticates like the REST endpoints
SubscriptionsBody_AnyPassword(f) ==
  [base_url |-> normalisedWpUrl(f), username |-> f.wpUsername,
   password |-> OrElse(f.wpAppPassword, f.wpAdminPassword)]

SubscriptionsBody(f) ==
  [base_url |-> normalisedWpUrl(f), username |-> f.wpUsername,
   password |-> f.wpAdminPassword]

\* fetchSubscriptionsPreview up to the fetch; the button is disabled while
\* subscriptionsBusy
fetchSubscriptionsPreview ==
  /\ ~subscriptionsBusy
  /\ lastEvent' = Event("fetchSubscriptionsPreview", 0, NoMessage)
  /\ subscriptionsMessage' = << >>
  /\ subscriptionsHtml' = << >>
  /\ subscriptionsUrl' = << >>
  /\ UNCHANGED << otherThanSubs, lastResponse >>
  /\ IF ExportFieldsMissing(Form)
     THEN /\ subscriptionsError' =
               << "Veuillez renseigner l'URL, l'identifiant et votre mot de passe WordPress (non application password)." >>
          /\ UNCHANGED << subscriptionsBusy, requests, requestsSent >>
     ELSE /\ requestsSent < MaxRequests
          /\ requestsSent' = requestsSent + 1
          /\ subscriptionsBusy' = TRUE
          /\ subscriptionsError' = << >>
          /\ requests' = requests \cup
               {Request("subscriptions", SubscriptionsBody(Form), Form)}

\* an absolute URL starts, after trimming, with a scheme and host
IsAbsoluteUrl(v) ==
  /\ v.t = "string"
  /\ Trim(v.s) # << >>
  /\ Trim(v.s)[1] \in {"https://site.example", "https://wp.example"}

\* the target URL of lines 591-601, or the TypeError its catch block throws
SubscriptionsTarget(parsed, f) ==
  LET given == FirstTruthy(parsed.o, << "base_url", "baseUrl" >>)
      base  == IF Truthy(given) THEN given ELSE JsString(normalisedWpUrl(f))
      adminPath == FirstTruthy(parsed.o, << "admin_path", "adminPath" >>)
  IN IF ~Truthy(adminPath) THEN [threw |-> << >>, url |-> ToText(base)]
     ELSE IF IsAbsoluteUrl(adminPath)
       THEN [threw |-> << >>, url |-> Trim(adminPath.s)]
     ELSE IF IsAbsoluteUrl(base)
       THEN [threw |-> << >>, url |-> << Trim(base.s)[1], "/" >> \o ToText(adminPath)]
     ELSE IF base.t # "string"
       THEN [threw |-> << "base.endsWith is not a function" >>, url |-> << >>]
     ELSE [threw |-> << >>,
           url |-> base.s
                   \o (IF Len(base.s) > 0 /\ base.s[Len(base.s)] = "/"
                       THEN << >> ELSE << "/" >>)
                   \o ToText(adminPath)]

\* fetchSubscriptionsPreview from the response on: try, catch, finally
SubscriptionsResponse(r, res) ==
  /\ r \in InFlight("subscriptions")
  /\ requests' = requests \ {r}
  /\ lastEvent' = Event("subscriptionsResponse", 0, NoMessage)
  /\ lastResponse' = res
  /\ UNCHANGED << otherThanSubs, requestsSent >>
  /\ LET payload == readJsonPayload(res)
         parsed  == ParsedObject(payload.data)
         target  == SubscriptionsTarget(parsed, r.closure)
         thrown  == IF res.failed THEN FetchFailedMessage
                    ELSE IF ~res.ok \/ ~isJsonObject(parsed)
                      THEN normaliseErrorMessage(parsed, payload.raw, SubsFailed)
                    ELSE target.threw
     IN IF thrown = << >>
        THEN /\ subscriptionsUrl' = target.url
             /\ subscriptionsHtml' = IF Truthy(parsed.o["html"])
                                     THEN ToText(parsed.o["html"]) ELSE << >>
             /\ subscriptionsMessage' = << "Page d'abonnements recuperee avec succes." >>
             /\ UNCHANGED subscriptionsError
        ELSE /\ subscriptionsError' =
               resolveUnknownError(thrown,
                 << "Impossible de recuperer la page des abonnements WooCommerce." >>)
             /\ UNCHANGED << subscriptionsUrl, subscriptionsHtml,
                             subscriptionsMessage >>
  /\ subscriptionsBusy' = FALSE

(* --------------------------- title and slug --------------------------- *)

\* characters: e_acute and E_ACUTE are the precomposed accented letters,
\* COMBINING_ACUTE the combining mark of their canonical decomposition;
\* a, b, e stand for the letters a-z and 0, 1 for the digits

toLowerCase(c) ==
  CASE c = "A" -> "a"
    [] c = "B" -> "b"
    [] c = "E_ACUTE" -> "e_acute"
    [] OTHER -> c

\* String.prototype.normalize('NFD') of one character
NFD(c) == IF c = "e_acute" THEN << "e", "COMBINING_ACUTE" >> ELSE << c >>

RECURSIVE FlatMapNFD(_)
FlatMapNFD(v) ==
  IF v = << >> THEN << >> ELSE NFD(Head(v)) \o FlatMapNFD(Tail(v))

\* replace(/X+/g, ...) keeps one character of every run of characters of S
RECURSIVE CollapseRuns(_, _)
CollapseRuns(v, S) ==
  IF Len(v) <= 1 THEN v
  ELSE IF v[1] \in S /\ v[2] \in S THEN CollapseRuns(Tail(v), S)
  ELSE << v[1] >> \o CollapseRuns(Tail(v), S)

\* mutant: replace(/^-|-$/, '') without the g flag, the first match only
StripHyphenEnds_FirstOnly(v) ==
  IF Len(v) > 0 /\ v[1] = "-" THEN Tail(v)
  ELSE IF Len(v) > 0 /\ v[Len(v)] = "-" THEN SubSeq(v, 1, Len(v) - 1)
  ELSE v

\* replace(/^-|-$/g, '')
StripHyphenEnds(v) ==
  LET a == IF Len(v) > 0 /\ v[1] = "-" THEN Tail(v) ELSE v
  IN IF Len(a) > 0 /\ a[Len(a)] = "-" THEN SubSeq(a, 1, Len(a) - 1) ELSE a

slugify(value) ==
  LET lower  == [i \in 1..Len(value) |-> toLowerCase(value[i])]
      nfd    == FlatMapNFD(lower)
      kept   == SelectSeq(nfd, LAMBDA c :
                  c \in {"a", "b", "e", "0", "1", "-"} \cup Whitespace)
      spaced == [i \in 1..Len(CollapseRuns(kept, Whitespace)) |->
                  IF CollapseRuns(kept, Whitespace)[i] \in Whitespace
                  THEN "-" ELSE CollapseRuns(kept, Whitespace)[i]]
      single == CollapseRuns(spaced, {"-"})
  IN StripHyphenEnds(single)

\* markdown.split(/\r?\n/)
RECURSIVE SplitLines(_)
SplitLines(v) ==
  IF \E i \in 1..Len(v) : v[i] = "\n"
  THEN LET i == CHOOSE i \in 1..Len(v) :
                  v[i] = "\n" /\ \A j \in 1..(i-1) : v[j] # "\n"
           line == IF i > 1 /\ v[i-1] = "\r" THEN SubSeq(v, 1, i - 2)
                   ELSE SubSeq(v, 1, i - 1)
       IN << line >> \o SplitLines(SubSeq(v, i + 1, Len(v)))
  ELSE << v >>

\* replace(/^#+\s*/, '')
RECURSIVE StripHeading(_)
StripHeading(v) ==
  IF Len(v) > 0 /\ v[1] = "#" THEN StripHeading(Tail(v))
  ELSE IF IsBlank(v) THEN << >>
  ELSE LET first == CHOOSE i \in 1..Len(v) :
                      v[i] \notin Whitespace /\ \A j \in 1..(i-1) : v[j] \in Whitespace
       IN SubSeq(v, first, Len(v))

extractTitle(markdown) ==
  LET lines == SplitLines(markdown)
  IN IF \A i \in 1..Len(lines) : IsBlank(lines[i]) THEN << >>
     ELSE LET i == CHOOSE i \in 1..Len(lines) :
                     ~IsBlank(lines[i]) /\ \A j \in 1..(i-1) : IsBlank(lines[j])
              trimmed == Trim(lines[i])
          IN IF trimmed[1] = "#" THEN Trim(StripHeading(trimmed)) ELSE trimmed

\* mutant: the effect derives the slug whatever slugTouched
SlugEffect_IgnoresTouched(changed, title, touched, slug) ==
  IF changed
  THEN (IF title # << >> THEN slugify(title) ELSE << >>)
  ELSE slug

\* useEffect(..., [postTitle, slugTouched]): the slug it leaves, given
\* whether a dependency changed, the title and slugTouched of the new render
\* and the slug the handler set
SlugEffect(changed, title, touched, slug) ==
  IF changed /\ ~touched
  THEN (IF title # << >> THEN slugify(title) ELSE << >>)
  ELSE slug

otherThanPost == << convertVars, credVars, wpVars, publishVars, exportVars,
                    subsVars, envVars, exportClicks, requestsSent, lastResponse >>

\* onChange of the title input
SetPostTitle(v) ==
  /\ v # postTitle
  /\ postTitle' = v
  /\ postSlug' = SlugEffect(TRUE, v, slugTouched, postSlug)
  /\ lastEvent' = Event("setPostTitle", 0, NoMessage)
  /\ UNCHANGED << postStatus, slugTouched, otherThanPost >>

\* onChange of the slug input
SetPostSlug(v) ==
  /\ v # postSlug
  /\ slugTouched' = TRUE
  /\ postSlug' = SlugEffect(~slugTouched, postTitle, TRUE, v)
  /\ lastEvent' = Event("setPostSlug", 0, NoMessage)
  /\ UNCHANGED << postTitle, postStatus, otherThanPost >>

\* onChange of the status select
SetPostStatus(v) ==
  /\ v # postStatus
  /\ postStatus' = v
  /\ lastEvent' = Event("setPostStatus", 0, NoMessage)
  /\ UNCHANGED << postTitle, postSlug, slugTouched, otherThanPost >>

(* ----------------------------- conversion ----------------------------- *)

ConvertFailed == << "Erreur de conversion" >>

otherThanConvert == << credVars, wpVars, postStatus, publishBusy, exportVars,
                       subsVars, backend, sockets, downloads, exportClicks >>

\* onChoose -> handleFileInput up to the fetch; the file input is disabled
\* while busy
handleFileInput ==
  /\ ~busy
  /\ requestsSent < MaxRequests
  /\ requestsSent' = requestsSent + 1
  /\ busy' = TRUE
  /\ error' = << >>
  /\ requests' = requests \cup {Request("convert", [file |-> << "<docx>" >>], Form)}
  /\ lastEvent' = Event("handleFileInput", 0, NoMessage)
  /\ UNCHANGED << md, html, engine, tab, postTitle, postSlug, slugTouched,
                  publishMessage, publishError, otherThanConvert, lastResponse >>

\* what the try block of handleFileInput throws, or << >>
ConvertFailure(res) ==
  LET payload == readJsonPayload(res)
  IN IF res.failed THEN FetchFailedMessage
     ELSE IF ~res.ok \/ ~isConvertResponse(payload.data)
          THEN normaliseErrorMessage(payload.data, payload.raw, ConvertFailed)
          ELSE << >>

\* handleFileInput from the response on: try, catch, finally
ConvertResponse(r, res) ==
  /\ r \in InFlight("convert")
  /\ requests' = requests \ {r}
  /\ lastEvent' = Event("convertResponse", 0, NoMessage)
  /\ lastResponse' = res
  /\ UNCHANGED << otherThanConvert, requestsSent >>
  /\ LET data == readJsonPayload(res).data
         thrown == ConvertFailure(res)
         detectedTitle == extractTitle(data.o["markdown"].s)
     IN IF thrown = << >>
        THEN /\ md' = data.o["markdown"].s
             /\ html' = data.o["html"].s
             /\ engine' = data.o["engine"].s
             /\ tab' = "md"
             /\ postTitle' = detectedTitle
             /\ publishMessage' = << >>
             /\ publishError' = << >>
             /\ slugTouched' = FALSE
             /\ postSlug' = SlugEffect(detectedTitle # postTitle \/ slugTouched,
                              detectedTitle, FALSE,
                              IF detectedTitle # << >> THEN slugify(detectedTitle)
                              ELSE << >>)
             /\ UNCHANGED error
        ELSE /\ error' = resolveUnknownError(thrown, ConvertFailed)
             /\ UNCHANGED << md, html, engine, tab, postTitle, postSlug,
                             slugTouched, publishMessage, publishError >>
  /\ busy' = FALSE

\* onChange of the Markdown textarea, shown on the Markdown tab
SetMd(v) ==
  /\ tab = "md"
  /\ v # md
  /\ md' = v
  /\ lastEvent' = Event("setMd", 0, NoMessage)
  /\ UNCHANGED << html, engine, busy, tab, error, credVars, wpVars, postVars,
                  publishVars, exportVars, subsVars, envVars, exportClicks,
                  requestsSent, lastResponse >>

\* onClick of the Markdown and HTML tabs
SetTab(v) ==
  /\ v # tab
  /\ tab' = v
  /\ lastEvent' = Event("setTab", 0, NoMessage)
  /\ UNCHANGED << md, html, engine, busy, error, credVars, wpVars, postVars,
                  publishVars, exportVars, subsVars, envVars, exportClicks,
                  requestsSent, lastResponse >>

(* ------------------------------- inputs ------------------------------- *)

Titles == { << >>, << "A", " ", "b" >>, << "E_ACUTE", "!", "-", " ", "1" >>,
            << " " >> }
Slugs  == { << >>, << "a", "b" >>, << "A", " " >> }

MarkdownHeading == << "#", " ", "E_ACUTE", "!", " ", "b", "\n", "e" >>
Markdowns == { MarkdownHeading,
               << "\r", "\n", " ", "b", "1", " ", "\n", "#", "a" >>,
               << "#", "#", " ", "\n" >>,
               << >> }

ConvertObject(markdown) ==
  JsonObject(("markdown" :> JsString(markdown))
             @@ ("html" :> JsString(<< "<h1>" >> \o markdown))
             @@ ("engine" :> JsString(<< "pandoc" >>))
             @@ ("stats" :> JsObject))

ErrorResponses ==
  { NetworkFailure,
    Response(FALSE, << >>, FALSE, JsonNull),
    Response(FALSE, << " ", "Bad Gateway", "\n" >>, FALSE, JsonNull),
    JsonResponse(FALSE, JsonObject(("detail" :> JsString(<< " ", "denied" >>))
                                   @@ ("message" :> JsString(<< " " >>)))),
    JsonResponse(FALSE, JsonObject("message" :> JsNumber(7))) }

ConvertResponses ==
  { JsonResponse(TRUE, ConvertObject(m)) : m \in Markdowns }
  \cup ErrorResponses
  \cup { JsonResponse(FALSE, ConvertObject(MarkdownHeading)),
         JsonResponse(TRUE, JsonObject(("markdown" :> JsString(MarkdownHeading))
                                       @@ ("html" :> JsString(<< "<h1>" >>))
                                       @@ ("engine" :> JsString(<< "pandoc" >>)))),
         JsonResponse(TRUE, JsonString(<< " ", "queued" >>)),
         Response(TRUE, << "<html>" >>, FALSE, JsonNull),
         Response(TRUE, << >>, FALSE, JsonNull) }

WordpressResponses ==
  ErrorResponses
  \cup { JsonResponse(TRUE, JsonObject(("success" :> JsBoolean(TRUE))
                                       @@ ("message" :> JsString(<< "Bonjour" >>)))),
         JsonResponse(TRUE, JsonObject("link" :> JsString(<< "https://site.example", "/?p=1" >>))),
         JsonResponse(TRUE, JsonObject(("success" :> JsBoolean(FALSE))
                                       @@ ("error" :> JsString(<< "refused" >>)))),
         JsonResponse(TRUE, JsonObject("success" :> JsBoolean(FALSE))),
         JsonResponse(TRUE, JsonObject("success" :> JsNumber(0))),
         JsonResponse(TRUE, JsonArray),
         Response(TRUE, << "<html>" >>, FALSE, JsonNull),
         Response(TRUE, << >>, FALSE, JsonNull) }

SubscriptionsResponses ==
  ErrorResponses
  \cup { JsonResponse(TRUE, JsonObject(("admin_path" :> JsString(<< "wp-admin/subs" >>))
                                       @@ ("html" :> JsString(<< "<table>" >>)))),
         JsonResponse(TRUE, JsonObject(("base_url" :> JsNumber(5))
                                       @@ ("adminPath" :> JsString(<< "wp-admin/subs" >>)))),
         JsonResponse(TRUE, JsonObject("baseUrl" :> JsString(<< "wp.example" >>))),
         JsonResponse(TRUE, JsonArray),
         Response(TRUE, << >>, FALSE, JsonNull) }

(* ------------------------------ behaviours ---------------------------- *)

\* the component after its first render and mount effects
Init ==
  /\ md = << >> /\ html = << >> /\ engine = << >>
  /\ busy = FALSE /\ tab = "md" /\ error = << >>
  /\ wpUrl = << >> /\ wpUsername = << >>
  /\ wpAppPassword = << >> /\ wpAdminPassword = << >>
  /\ wpTesting = FALSE /\ wpConnected = FALSE
  /\ wpMessage = << >> /\ wpError = << >>
  /\ postTitle = << >> /\ postSlug = << >> /\ postStatus = "draft"
  /\ publishBusy = FALSE /\ publishMessage = << >> /\ publishError = << >>
  /\ slugTouched = FALSE
  /\ exportBusy = FALSE /\ exportMessage = << >> /\ exportError = << >>
  /\ exportLogs = << >> /\ exportProgress = 0 /\ wsRef = 0
  /\ subscriptionsBusy = FALSE /\ subscriptionsMessage = << >>
  /\ subscriptionsError = << >> /\ subscriptionsUrl = << >>
  /\ subscriptionsHtml = << >>
  /\ backend \in BackendUrls
  /\ sockets = << >> /\ requests = {} /\ downloads = << >>
  /\ exportClicks = 0 /\ requestsSent = 0
  /\ lastEvent = Event("mount", 0, NoMessage)
  /\ lastResponse = NetworkFailure

WsEvents(messages) ==
  \E s \in 1..MaxExports :
    \/ WsOpen(s)
    \/ \E m \in messages : WsMessage(s, m)
    \/ WsFail(s)
    \/ WsClose(s)

\* the export session: the credential fields edited at any time, the export
\* button, the socket events, one message of each kind
NextExport ==
  \/ EditCredentials({<< >>, PaddedUrl}, Usernames, {}, AdminPasswords)
  \/ exportSubscriptions
  \/ WsEvents(SessionMessages)

SpecExport == Init /\ [][NextExport]_vars

\* the message handler: the credential fields filled in once, the export
\* button, the socket events with every message
NextMessages ==
  \/ EditCredentials({PaddedUrl}, {<< "admin" >>}, {}, {<< "admin-pw" >>})
  \/ exportSubscriptions
  \/ WsEvents(WsMessages)

SpecMessages == Init /\ [][NextMessages]_vars

HttpResponses ==
  \/ \E r \in requests, res \in ConvertResponses : ConvertResponse(r, res)
  \/ \E r \in requests, res \in WordpressResponses : ConnectResponse(r, res)
  \/ \E r \in requests, res \in WordpressResponses : PublishResponse(r, res)
  \/ \E r \in requests, res \in SubscriptionsResponses : SubscriptionsResponse(r, res)

\* the four HTTP operations: the credential fields filled in once, the file
\* input, the three buttons, every response
NextHttp ==
  \/ EditCredentials({PaddedUrl}, {<< "admin" >>}, {}, {<< "admin-pw" >>})
  \/ handleFileInput
  \/ testWordpressConnection
  \/ publishToWordpress
  \/ fetchSubscriptionsPreview
  \/ HttpResponses

SpecHttp == Init /\ [][NextHttp]_vars

ChannelResponses ==
  { NetworkFailure,
    JsonResponse(TRUE, JsonObject("success" :> JsBoolean(TRUE))) }

\* where the passwords go: the application password edited at any time, the
\* four buttons that send credentials, the socket opening and closing
NextChannels ==
  \/ EditCredentials({PaddedUrl}, {<< "admin" >>}, AppPasswords, {<< "admin-pw" >>})
  \/ SetMd(MarkdownHeading)
  \/ testWordpressConnection
  \/ publishToWordpress
  \/ fetchSubscriptionsPreview
  \/ exportSubscriptions
  \/ \E r \in requests, res \in ChannelResponses : ConnectResponse(r, res)
  \/ \E r \in requests, res \in ChannelResponses : PublishResponse(r, res)
  \/ \E r \in requests, res \in ChannelResponses : SubscriptionsResponse(r, res)
  \/ \E s \in 1..MaxExports : WsOpen(s) \/ WsClose(s)

SpecChannels == Init /\ [][NextChannels]_vars

\* title and slug: the post fields, the tabs, the file input and every
\* conversion response
NextSlug ==
  \/ \E v \in Titles : SetPostTitle(v)
  \/ \E v \in Slugs : SetPostSlug(v)
  \/ \E v \in {"draft", "publish"} : SetPostStatus(v)
  \/ \E v \in {"md", "html"} : SetTab(v)
  \/ handleFileInput
  \/ \E r \in requests, res \in ConvertResponses : ConvertResponse(r, res)

SpecSlug == Init /\ [][NextSlug]_vars

\* characters typed in the title input: letters, a digit, an accented
\* capital, a hyphen, a space and a punctuation mark
TitleAlphabet == {"A", "b", "1", "E_ACUTE", "-", " ", "!"}

\* the title typed and erased one character at a time; every keystroke is
\* an onChange of the title input, followed by the slug effect
NextTyping ==
  \/ \E c \in TitleAlphabet :
       Len(postTitle) < MaxTitleLen /\ SetPostTitle(Append(postTitle, c))
  \/ Len(postTitle) > 0 /\ SetPostTitle(SubSeq(postTitle, 1, Len(postTitle) - 1))

SpecTyping == Init /\ [][NextTyping]_vars

(* ====================================================================== *)
(*                                 claims                                 *)
(* ====================================================================== *)

Sockets == 1..Len(sockets)

\* the step just taken ran the handler op
Ran(op) == lastEvent'.op = op
RanMessage == Ran("message")
RanWsEvent == lastEvent'.op \in {"open", "message", "error", "close"}

(* C1 as stated: in every state the number of WebSockets the client has   *)
(* opened equals the number of export clicks that passed the credential   *)
(* validation.                                                            *)
C1_AsStated == Len(sockets) = exportClicks

(* C1, amended: an accepted export click opens exactly one WebSocket when *)
(* building the URL and constructing the socket do not throw, and none    *)
(* when they throw (the click then ends with exportError set and          *)
(* exportBusy false); no other handler, in particular no WebSocket open,  *)
(* message, error or close handler, ever opens a connection.              *)
C1_OneConnectionPerAcceptedClick ==
  /\ [](Len(sockets) = IF ExportStartException(backend) = << >>
                       THEN exportClicks ELSE 0)
  /\ [](ExportStartException(backend) # << >> /\ exportClicks > 0
          /\ lastEvent.op = "exportSubscriptions"
        => exportError # << >> /\ ~exportBusy)
  /\ [][ /\ Len(sockets') >= Len(sockets)
         /\ Len(sockets') # Len(sockets)
              => /\ Ran("exportSubscriptions")
                 /\ Len(sockets') = Len(sockets) + 1
                 /\ exportClicks' = exportClicks + 1
         /\ RanWsEvent => Len(sockets') = Len(sockets) ]_vars

C1_Witness ==
  /\ exportClicks = 2
  /\ Len(sockets) = 2
  /\ lastEvent.op = "close"
  /\ \E s \in Sockets : sockets[s].finished

(* C2: a session's only message is the credentials message (baseUrl = the *)
(* trimmed site URL, username and admin password of the render that       *)
(* started the export): nothing is sent before the open handler runs, the  *)
(* open handler sends it, it is already sent when a server message of the  *)
(* session is handled, and nothing is sent on that socket afterwards.      *)
ExpectedCredentials(f) ==
  [baseUrl |-> Trim(f.wpUrl), username |-> f.wpUsername,
   password |-> f.wpAdminPassword, browser |-> "firefox", headless |-> TRUE]

C2_OnlyCredentialsOnOpen ==
  /\ [](\A s \in Sockets :
          /\ sockets[s].sent \in {<< >>, << ExpectedCredentials(sockets[s].closure) >>}
          /\ sockets[s].readyState = "CONNECTING" => sockets[s].sent = << >>
          /\ sockets[s].readyState = "OPEN" => Len(sockets[s].sent) = 1)
  /\ [][ /\ Ran("open") => /\ sockets[lastEvent'.s].sent = << >>
                           /\ Len(sockets'[lastEvent'.s].sent) = 1
         /\ RanMessage => /\ Len(sockets[lastEvent'.s].sent) = 1
                          /\ sockets'[lastEvent'.s].sent = sockets[lastEvent'.s].sent
         /\ \A s \in Sockets :
              sockets'[s].sent # sockets[s].sent
                => Ran("open") /\ lastEvent'.s = s ]_vars

C2_Witness ==
  /\ lastEvent.op = "message"
  /\ sockets[lastEvent.s].sent = << ExpectedCredentials(sockets[lastEvent.s].closure) >>
  /\ sockets[lastEvent.s].closure.wpUrl = PaddedUrl

(* C3 as stated: once an 'error' or 'done' message of a session has been  *)
(* handled, exportBusy is false and close() has been called on the         *)
(* session's socket, and no later message of that session changes          *)
(* exportProgress, exportMessage or exportError.                           *)
C3_TerminalMessageEndsSession ==
  [][ RanMessage =>
        /\ (IsError(lastEvent'.m) \/ IsDone(lastEvent'.m))
             => ~exportBusy' /\ sockets'[lastEvent'.s].closeCalled
        /\ sockets[lastEvent'.s].finished
             => UNCHANGED << exportProgress, exportMessage, exportError >> ]_vars

(* C4: a 'progress' or 'step' message and an unrecognised message leave   *)
(* exportBusy, exportError and exportMessage unchanged and do not close    *)
(* the socket; an unrecognised message also leaves exportProgress          *)
(* unchanged and changes nothing but exportLogs, to which it appends its   *)
(* trimmed text when the text is not blank.                                *)
C4_NonTerminalMessagesFrame ==
  [][ RanMessage /\ ~IsError(lastEvent'.m) /\ ~IsDone(lastEvent'.m) =>
        /\ UNCHANGED << exportBusy, exportError, exportMessage >>
        /\ sockets' = sockets
        /\ ~IsRecognised(lastEvent'.m) =>
             /\ UNCHANGED << exportProgress, wsRef, downloads, otherThanExport,
                             exportClicks >>
             /\ exportLogs' = IF lastEvent'.m.isText /\ ~IsBlank(lastEvent'.m.raw)
                              THEN Append(exportLogs, Trim(lastEvent'.m.raw))
                              ELSE exportLogs ]_vars

C4_Witness ==
  /\ lastEvent.op = "message"
  /\ ~IsRecognised(lastEvent.m)
  /\ lastEvent.m.parsed = "object"
  /\ exportBusy
  /\ exportProgress = 50
  /\ Len(exportLogs) >= 2
  /\ exportLogs[Len(exportLogs)] = lastEvent.m.raw

(* C5 as stated: a 'done' message whose data is a non-empty string         *)
(* triggers exactly one download, named by the message or else             *)
(* 'woocommerce-subscriptions.csv', and sets exportMessage to a non-empty  *)
(* text; a 'done' message without such data triggers no download and sets  *)
(* exportError to a non-empty text; both set exportProgress to 100.        *)
C5_DoneDownloads ==
  [][ RanMessage /\ IsDone(lastEvent'.m) =>
        /\ exportProgress' = 100
        /\ IF HasData(lastEvent'.m)
           THEN /\ Len(downloads') = Len(downloads) + 1
                /\ downloads'[Len(downloads')].filename =
                     (IF Truthy(lastEvent'.m.filename)
                      THEN lastEvent'.m.filename.s ELSE DefaultFilename)
                /\ exportMessage' # << >>
           ELSE /\ downloads' = downloads
                /\ exportError' # << >> ]_vars

(* C6: at most one export WebSocket exists on which the client has not     *)
(* called close(); an export click is accepted only while exportBusy is    *)
(* false; and when a new socket is stored in wsRef, close() has been       *)
(* called on the socket wsRef held before.                                 *)
C6_SingleSession ==
  /\ [](Cardinality({s \in Sockets : ~sockets[s].closeCalled}) <= 1)
  /\ [](\A s \in Sockets : s # wsRef => sockets[s].closeCalled)
  /\ [][ /\ exportClicks' # exportClicks => ~exportBusy
         /\ wsRef' # wsRef =>
              /\ wsRef' = Len(sockets')
              /\ wsRef # 0 => /\ sockets'[wsRef].closeCalled
                              /\ sockets'[wsRef].readyState \in {"CLOSING", "CLOSED"} ]_vars

C6_Witness ==
  /\ Len(sockets) = 2
  /\ wsRef = 2
  /\ exportBusy
  /\ sockets[1].closeCalled
  /\ sockets[2].readyState = "OPEN"

(* C7: each busy flag is true exactly while a request of its operation is *)
(* in flight, so it is false again as soon as the request finishes; the   *)
(* step that handles the outcome (OK response, error status, body that is *)
(* not valid JSON, network failure) leaves exactly one of the operation's *)
(* success message and error message non-empty, the error message for     *)
(* every error status and network failure; for convert it either replaces *)
(* the editor content and leaves error empty, or leaves the content alone *)
(* and sets error.                                                        *)
C7_BusyFlagsReset ==
  /\ [](/\ busy = (InFlight("convert") # {})
        /\ wpTesting = (InFlight("connect") # {})
        /\ publishBusy = (InFlight("publish") # {})
        /\ subscriptionsBusy = (InFlight("subscriptions") # {}))
  /\ [][ /\ Ran("connectResponse") =>
              /\ ~wpTesting'
              /\ (wpMessage' # << >>) # (wpError' # << >>)
              /\ ~lastResponse'.ok => wpError' # << >>
         /\ Ran("publishResponse") =>
              /\ ~publishBusy'
              /\ (publishMessage' # << >>) # (publishError' # << >>)
              /\ ~lastResponse'.ok => publishError' # << >>
         /\ Ran("subscriptionsResponse") =>
              /\ ~subscriptionsBusy'
              /\ (subscriptionsMessage' # << >>) # (subscriptionsError' # << >>)
              /\ ~lastResponse'.ok => subscriptionsError' # << >>
         /\ Ran("convertResponse") =>
              /\ ~busy'
              /\ \/ /\ error' = << >>
                    /\ lastResponse'.ok
                    /\ isConvertResponse(lastResponse'.data)
                    /\ md' = lastResponse'.data.o["markdown"].s
                    /\ html' = lastResponse'.data.o["html"].s
                    /\ engine' = lastResponse'.data.o["engine"].s
                 \/ /\ error' # << >>
                    /\ UNCHANGED << md, html, engine >> ]_vars

C7_Witness ==
  /\ lastEvent.op = "connectResponse"
  /\ ~lastResponse.failed /\ ~lastResponse.ok
  /\ ~lastResponse.valid /\ lastResponse.raw # << >>
  /\ ~wpTesting
  /\ wpError = Trim(lastResponse.raw)
  /\ wpMessage = << >>
  /\ subscriptionsBusy

WordpressRequests == InFlight("connect") \cup InFlight("publish")

\* the value a body field carries; an absent field carries nothing
Carried(v) == IF v = Undefined THEN << >> ELSE v

(* C8 as stated: in every request to /wordpress/connect or                *)
(* /wordpress/publish the fields applicationPassword and password both    *)
(* carry the application password, and no field carries the admin         *)
(* password.                                                              *)
C8_AsStated ==
  \A r \in WordpressRequests :
    /\ Carried(r.body["applicationPassword"]) = r.closure.wpAppPassword
    /\ Carried(r.body["password"]) = r.closure.wpAppPassword
    /\ r.closure.wpAdminPassword # << >> =>
         \A k \in BodyFields : r.body[k] # r.closure.wpAdminPassword

(* C8, amended: in every request to /wordpress/connect or                 *)
(* /wordpress/publish, password carries the application password when     *)
(* that field is filled in and the admin password otherwise, and is never *)
(* empty; applicationPassword carries the application password or is      *)
(* absent; the admin password is sent only when the application-password  *)
(* field is empty.                                                        *)
C8_AppPasswordFirst ==
  \A r \in WordpressRequests :
    LET app   == r.closure.wpAppPassword
        admin == r.closure.wpAdminPassword
    IN /\ r.body["applicationPassword"] = IF app # << >> THEN app ELSE Undefined
       /\ r.body["password"] = IF app # << >> THEN app ELSE admin
       /\ r.body["password"] \notin {<< >>, Undefined}
       /\ app # << >> /\ admin # << >> =>
            \A k \in BodyFields : r.body[k] # admin

C8_Witness ==
  /\ \E r \in InFlight("publish") :
       /\ r.closure.wpAppPassword = << >>
       /\ r.closure.wpAdminPassword # << >>
       /\ r.body["password"] = r.closure.wpAdminPassword
       /\ r.body["applicationPassword"] = Undefined
  /\ \E r \in InFlight("connect") :
       /\ r.closure.wpAppPassword # << >>
       /\ r.closure.wpAdminPassword # << >>
       /\ r.body["password"] = r.closure.wpAppPassword

\* the render f with another application password
WithAppPassword(f, p) == [f EXCEPT !.wpAppPassword = p]

(* C9: what the export WebSocket and /wordpress/subscriptions receive     *)
(* does not depend on the application password: with any other value in   *)
(* that field the same click is accepted or refused alike and sends the   *)
(* same credentials message and the same body, whose password is the      *)
(* admin password and none of whose fields is the application password.   *)
C9_AppPasswordNotOnChannels ==
  /\ \A p \in AppPasswords :
       ExportFieldsMissing(WithAppPassword(Form, p)) = ExportFieldsMissing(Form)
  /\ \A s \in Sockets : \A i \in 1..Len(sockets[s].sent) :
       LET m == sockets[s].sent[i]
           f == sockets[s].closure
       IN /\ \A p \in AppPasswords : m = CredentialsMessage(WithAppPassword(f, p))
          /\ m.password = f.wpAdminPassword
          /\ f.wpAppPassword # << >> =>
               f.wpAppPassword \notin {m.baseUrl, m.username, m.password}
  /\ \A r \in InFlight("subscriptions") :
       LET f == r.closure
       IN /\ \A p \in AppPasswords :
               r.body = SubscriptionsBody(WithAppPassword(f, p)) @@ EmptyBody
          /\ r.body["password"] = f.wpAdminPassword
          /\ f.wpAppPassword # << >> =>
               \A k \in BodyFields : r.body[k] # f.wpAppPassword

C9_Witness ==
  /\ \E s \in Sockets :
       /\ Len(sockets[s].sent) = 1
       /\ sockets[s].closure.wpAppPassword = << "app-pw-1" >>
  /\ \E r \in InFlight("subscriptions") :
       r.closure.wpAppPassword = << "app-pw-2" >>

(* C10: while slugTouched is false the slug is slugify(postTitle), empty  *)
(* when the title is empty; once slugTouched is true an edit of the title *)
(* leaves the slug as it is; a successful conversion sets slugTouched to  *)
(* false, the title to the title extracted from the new markdown and the  *)
(* slug to slugify of that title.                                         *)
C10_SlugFollowsTitle ==
  /\ [](~slugTouched =>
          /\ postSlug = slugify(postTitle)
          /\ postTitle = << >> => postSlug = << >>)
  /\ [][ /\ slugTouched /\ Ran("setPostTitle") =>
              /\ postTitle' # postTitle
              /\ postSlug' = postSlug
              /\ slugTouched'
         /\ Ran("setPostSlug") => slugTouched'
         /\ Ran("convertResponse") /\ ConvertFailure(lastResponse') = << >> =>
              /\ ~slugTouched'
              /\ md' = lastResponse'.data.o["markdown"].s
              /\ postTitle' = extractTitle(md')
              /\ postSlug' = slugify(postTitle') ]_vars

C10_Witness ==
  /\ lastEvent.op = "convertResponse"
  /\ md = MarkdownHeading
  /\ ~slugTouched
  /\ postTitle = << "E_ACUTE", "!", " ", "b" >>
  /\ postSlug = << "e", "-", "b" >>
  /\ requestsSent = 2

\* the response has an OK status and its body is not a JSON object with
\* success === false
OkAndNotRefused(res) ==
  /\ ~res.failed
  /\ res.ok
  /\ ~(/\ res.raw # << >>
       /\ res.valid
       /\ res.data.k = "object"
       /\ res.data.o["success"] = JsBoolean(FALSE))

(* C11: the step that handles the response of a connection test leaves    *)
(* wpConnected true exactly when the response has an OK status and its    *)
(* body is not a JSON object with success === false (an empty body, a     *)
(* body that is not valid JSON or not a JSON object count as success);    *)
(* otherwise wpConnected is false and wpError non-empty. The step that    *)
(* handles the response of a publication leaves publishMessage non-empty  *)
(* in the first case and publishError non-empty in the second.            *)
C11_LenientSuccess ==
  [][ /\ Ran("connectResponse") =>
           /\ wpConnected' = OkAndNotRefused(lastResponse')
           /\ (wpMessage' # << >>) = OkAndNotRefused(lastResponse')
           /\ (wpError' # << >>) = ~OkAndNotRefused(lastResponse')
      /\ Ran("publishResponse") =>
           /\ (publishMessage' # << >>) = OkAndNotRefused(lastResponse')
           /\ (publishError' # << >>) = ~OkAndNotRefused(lastResponse') ]_vars

C11_Witness ==
  /\ lastEvent.op = "connectResponse"
  /\ lastResponse.ok
  /\ lastResponse.raw # << >>
  /\ ~lastResponse.valid
  /\ wpConnected
  /\ wpError = << >>

\* the fields the claim requires, read in the form before the click
UrlAndUsernameGiven == wpUrl # << >> /\ wpUsername # << >>
RestFieldsGiven ==
  UrlAndUsernameGiven /\ (wpAppPassword # << >> \/ wpAdminPassword # << >>)
AdminFieldsGiven == UrlAndUsernameGiven /\ wpAdminPassword # << >>
ContentGiven == md # << >> \/ html # << >>
NothingSent == requests' = requests /\ sockets' = sockets

(* C12: a click with a required field missing sends no request and opens  *)
(* no socket, leaves the operation's busy flag false, its error message   *)
(* non-empty and its success message empty; a click with the required     *)
(* fields sends the request. The connection test and publication require  *)
(* site URL, username and one of the two passwords (publication also      *)
(* Markdown or HTML); the export and the preview require site URL,        *)
(* username and the admin password.                                       *)
C12_MissingFieldsSendNothing ==
  [][ /\ Ran("testWordpressConnection") =>
           IF RestFieldsGiven
           THEN Cardinality(InFlight("connect")') = 1 /\ wpTesting'
           ELSE /\ NothingSent
                /\ ~wpTesting'
                /\ wpError' # << >>
                /\ wpMessage' = << >>
      /\ Ran("publishToWordpress") =>
           IF RestFieldsGiven /\ ContentGiven
           THEN Cardinality(InFlight("publish")') = 1 /\ publishBusy'
           ELSE /\ NothingSent
                /\ ~publishBusy'
                /\ publishError' # << >>
                /\ publishMessage' = << >>
      /\ Ran("fetchSubscriptionsPreview") =>
           IF AdminFieldsGiven
           THEN Cardinality(InFlight("subscriptions")') = 1 /\ subscriptionsBusy'
           ELSE /\ NothingSent
                /\ ~subscriptionsBusy'
                /\ subscriptionsError' # << >>
                /\ subscriptionsMessage' = << >>
      /\ Ran("exportSubscriptions") =>
           IF AdminFieldsGiven
           THEN exportClicks' = exportClicks + 1
           ELSE /\ NothingSent
                /\ exportClicks' = exportClicks
                /\ ~exportBusy'
                /\ exportError' # << >>
                /\ exportMessage' = << >> ]_vars

C12_Witness ==
  /\ lastEvent.op = "exportSubscriptions"
  /\ UrlAndUsernameGiven
  /\ wpAppPassword # << >>
  /\ wpAdminPassword = << >>
  /\ exportError # << >>
  /\ ~exportBusy
  /\ sockets = << >>
  /\ InFlight("connect") # {}

\* the body of the response parsed to a JSON object
BodyIsObject(res) ==
  ~res.failed /\ res.raw # << >> /\ res.valid /\ res.data.k = "object"

NonBlankString(v) == v.t = "string" /\ Trim(v.s) # << >>

\* the order the claim states: message, error, detail, the raw body, the
\* fallback
StatedMessage(res, fallback) ==
  LET o == res.data.o
  IN IF BodyIsObject(res) /\ NonBlankString(o["message"]) THEN Trim(o["message"].s)
     ELSE IF BodyIsObject(res) /\ NonBlankString(o["error"]) THEN Trim(o["error"].s)
     ELSE IF BodyIsObject(res) /\ NonBlankString(o["detail"]) THEN Trim(o["detail"].s)
     ELSE IF ~res.failed /\ Trim(res.raw) # << >> THEN Trim(res.raw)
     ELSE fallback

\* the error message of the operation whose response the step handled
ShownError(op) ==
  CASE op = "convertResponse" -> error
    [] op = "connectResponse" -> wpError
    [] op = "publishResponse" -> publishError
    [] op = "subscriptionsResponse" -> subscriptionsError
    [] OTHER -> << >>

\* the operation shows its success: its message, or the converted document
ShownSuccess(op) ==
  CASE op = "convertResponse" -> lastResponse.ok /\ md = lastResponse.data.o["markdown"].s
    [] op = "connectResponse" -> wpMessage # << >>
    [] op = "publishResponse" -> publishMessage # << >>
    [] op = "subscriptionsResponse" -> subscriptionsMessage # << >>
    [] OTHER -> FALSE

\* the fallback the handler passes to normaliseErrorMessage
InnerFallback(op) ==
  CASE op = "convertResponse" -> << "Erreur de conversion" >>
    [] op = "connectResponse" -> << "Connexion echouee" >>
    [] op = "publishResponse" -> << "Publication echouee" >>
    [] OTHER -> << "Recuperation echouee" >>

\* the fallback the handler passes to resolveUnknownError
OuterFallback(op) ==
  CASE op = "convertResponse" -> << "Erreur de conversion" >>
    [] op = "connectResponse" -> << "Impossible de se connecter a WordPress." >>
    [] op = "publishResponse" -> << "Impossible de publier sur WordPress." >>
    [] OTHER -> << "Impossible de recuperer la page des abonnements WooCommerce." >>

HttpResponseOps == {"convertResponse", "connectResponse", "publishResponse",
                    "subscriptionsResponse"}

(* C13 as stated: whenever an HTTP operation fails, the error message     *)
(* shown is the first non-blank string among the response object's        *)
(* message, error and detail, trimmed; else the trimmed raw body when     *)
(* non-blank; else the operation's fallback text.                         *)
C13_AsStated ==
  [][ \A op \in HttpResponseOps :
        Ran(op) /\ ShownError(op)' # << >> =>
          ShownError(op)' \in {StatedMessage(lastResponse', InnerFallback(op)),
                              StatedMessage(lastResponse', OuterFallback(op))} ]_vars

\* the handler threw an exception of its own: fetch rejected, or the preview
\* built its URL on a base that is not a string
ThrewException(op, res) ==
  \/ res.failed
  \/ /\ op = "subscriptionsResponse"
     /\ res.ok
     /\ BodyIsObject(res)
     /\ ShownError(op)' = << "base.endsWith is not a function" >>

\* convert hands the parsed body itself to pickBackendMessage
BodyIsShownString(op, res) ==
  /\ op = "convertResponse"
  /\ ~res.failed /\ res.raw # << >> /\ res.valid
  /\ res.data.k = "string"
  /\ Trim(res.data.s) # << >>

(* C13, amended: when the server answered and the operation fails, the    *)
(* message shown is, for convert, the body itself trimmed when it parses  *)
(* to a non-blank JSON string; else the first non-blank string among the  *)
(* response object's message, error and detail, trimmed; else the trimmed *)
(* raw body when non-blank; else the operation's fallback text. When      *)
(* fetch rejects or the handler itself throws, the message shown is the   *)
(* exception's message. The message shown is never empty when the         *)
(* operation fails.                                                       *)
C13_ErrorMessageOrder ==
  [][ \A op \in HttpResponseOps :
        Ran(op) =>
          /\ ShownError(op)' = << >> => ShownSuccess(op)'
          /\ ShownError(op)' # << >> =>
               IF lastResponse'.failed THEN ShownError(op)' = FetchFailedMessage
               ELSE IF ThrewException(op, lastResponse') THEN TRUE
               ELSE IF BodyIsShownString(op, lastResponse')
                 THEN ShownError(op)' = Trim(lastResponse'.data.s)
               ELSE ShownError(op)' = StatedMessage(lastResponse', InnerFallback(op)) ]_vars

C13_Witness ==
  /\ lastEvent.op = "publishResponse"
  /\ BodyIsObject(lastResponse)
  /\ lastResponse.data.o["message"] = JsString(<< " " >>)
  /\ lastResponse.data.o["detail"] = JsString(<< " ", "denied" >>)
  /\ publishError = << "denied" >>

\* a-z, 0-9 and the hyphen, as far as the characters typed reach
SlugCharacters == {"a", "b", "e", "0", "1", "-"}

(* C14: the slug that slugify derives from any title typed is made only   *)
(* of a-z, 0-9 and '-', neither starts nor ends with '-', contains no two *)
(* consecutive '-', and is left as it is by slugify (idempotence).        *)
C14_SlugShape ==
  LET out == slugify(postTitle)
  IN /\ postSlug = out
     /\ \A i \in 1..Len(out) : out[i] \in SlugCharacters
     /\ Len(out) > 0 => out[1] # "-" /\ out[Len(out)] # "-"
     /\ \A i \in 1..(Len(out) - 1) : ~(out[i] = "-" /\ out[i + 1] = "-")
     /\ slugify(out) = out

C14_Witness ==
  /\ postTitle = << "-", " ", "E_ACUTE", "-" >>
  /\ postSlug = << "e" >>

(* C15: a step that changes the site URL, the username, the application   *)
(* password or the admin password leaves wpConnected false, wpMessage,    *)
(* wpError, exportMessage, exportError, exportLogs and the preview        *)
(* message, error, HTML and URL empty and exportProgress 0, and does not  *)
(* change md, html, postTitle, postSlug, postStatus, publishMessage or    *)
(* publishError.                                                          *)
C15_CredentialChangeResets ==
  [][ << wpUrl, wpUsername, wpAppPassword, wpAdminPassword >>'
        # << wpUrl, wpUsername, wpAppPassword, wpAdminPassword >> =>
      /\ ~wpConnected'
      /\ wpMessage' = << >> /\ wpError' = << >>
      /\ exportMessage' = << >> /\ exportError' = << >>
      /\ exportLogs' = << >> /\ exportProgress' = 0
      /\ subscriptionsMessage' = << >> /\ subscriptionsError' = << >>
      /\ subscriptionsHtml' = << >> /\ subscriptionsUrl' = << >>
      /\ UNCHANGED << md, html, postTitle, postSlug, postStatus,
                      publishMessage, publishError >> ]_vars

C15_Witness ==
  /\ lastEvent.op = "setWpAppPassword"
  /\ md # << >>
  /\ publishMessage # << >>
  /\ exportBusy
  /\ exportLogs = << >>
  /\ \E s \in Sockets : sockets[s].readyState = "OPEN"

IsPrefix(a, b) == Len(a) <= Len(b) /\ SubSeq(b, 1, Len(a)) = a

CredentialsChanged ==
  << wpUrl, wpUsername, wpAppPassword, wpAdminPassword >>'
    # << wpUrl, wpUsername, wpAppPassword, wpAdminPassword >>

(* C16: a step that is neither the start of an export nor a credential    *)
(* change keeps exportLogs as a prefix of the new exportLogs, so handled   *)
(* events only append lines at the end, in the order they are handled;    *)
(* the start of an export and a credential change empty the log.          *)
C16_LogAppendOnly ==
  [][ IF exportClicks' # exportClicks \/ CredentialsChanged
      THEN exportLogs' = << >>
      ELSE /\ IsPrefix(exportLogs, exportLogs')
           /\ exportLogs' # exportLogs => RanWsEvent ]_vars

C16_Witness ==
  /\ lastEvent.op = "close"
  /\ Len(exportLogs) = 3
  /\ exportLogs[1] = LogConnected
  /\ exportLogs[3] = LogWsClosed
  /\ exportLogs[2] \notin {LogConnected, LogWsClosed}

(* C17 as stated: once the close event of the current export session's    *)
(* WebSocket has been handled, and until a new export is started,         *)
(* exportBusy is false.                                                   *)
C17_ClosedMeansNotBusy ==
  wsRef # 0 /\ sockets[wsRef].readyState = "CLOSED" => ~exportBusy

(* C18 as stated: wpConnected becomes true only by a connection test that *)
(* was run with the credential values now in the form, and a credential   *)
(* change makes it false: whenever wpConnected is true, the test that set *)
(* it used the current credentials.                                       *)
C18_ConnectedForCurrentCredentials ==
  [][ /\ wpConnected' /\ ~wpConnected =>
           \A r \in requests \ requests' : r.closure = Form'
      /\ CredentialsChanged => ~wpConnected' ]_vars

(* C19 as stated: an open, message, error or close event of a WebSocket   *)
(* that is not the one of the current session changes none of exportLogs, *)
(* exportProgress, exportBusy, exportError and exportMessage.             *)
C19_StaleEventsIgnored ==
  [][ RanWsEvent /\ lastEvent'.s # wsRef =>
        UNCHANGED << exportLogs, exportProgress, exportBusy, exportError,
                     exportMessage >> ]_vars

(* C20 as stated: in every state, for each of the pairs wpMessage and     *)
(* wpError, publishMessage and publishError, exportMessage and            *)
(* exportError, subscriptionsMessage and subscriptionsError, at least one *)
(* of the two is empty.                                                   *)
C20_OneFeedbackAtATime ==
  /\ wpMessage = << >> \/ wpError = << >>
  /\ publishMessage = << >> \/ publishError = << >>
  /\ exportMessage = << >> \/ exportError = << >>
  /\ subscriptionsMessage = << >> \/ subscriptionsError = << >>

\* an OK status and a body that is an object with string markdown, html and
\* engine and an object stats
ValidConversion(res) ==
  /\ BodyIsObject(res)
  /\ res.ok
  /\ res.data.o["markdown"].t = "string"
  /\ res.data.o["html"].t = "string"
  /\ res.data.o["engine"].t = "string"
  /\ res.data.o["stats"].t = "object"

(* C21: the step that handles a conversion response that is not valid     *)
(* (non-OK status, body not of the expected shape, network failure)       *)
(* leaves md, html, engine, tab, postTitle, postSlug, slugTouched,        *)
(* publishMessage and publishError unchanged and error non-empty; the     *)
(* step that handles a valid response sets md, html and engine together   *)
(* to the response's values and leaves error empty; no other step of the  *)
(* conversion changes md, html or engine.                                 *)
C21_FailedConversionChangesNothing ==
  [][ /\ Ran("convertResponse") =>
           IF ValidConversion(lastResponse')
           THEN /\ md' = lastResponse'.data.o["markdown"].s
                /\ html' = lastResponse'.data.o["html"].s
                /\ engine' = lastResponse'.data.o["engine"].s
                /\ error' = << >>
           ELSE /\ UNCHANGED << md, html, engine, tab, postTitle, postSlug,
                                slugTouched, publishMessage, publishError >>
                /\ error' # << >>
      /\ << md, html, engine >>' # << md, html, engine >> =>
           Ran("convertResponse") /\ ValidConversion(lastResponse') ]_vars

C21_Witness ==
  /\ lastEvent.op = "convertResponse"
  /\ lastResponse.ok
  /\ BodyIsObject(lastResponse)
  /\ lastResponse.data.o["markdown"].t = "string"
  /\ lastResponse.data.o["stats"].t = "undefined"
  /\ error # << >>
  /\ md # << >> /\ md # lastResponse.data.o["markdown"].s
  /\ slugTouched
  /\ tab = "html"

(* C22: exportProgress is between 0 and 100 in every state; a progress or *)
(* step message whose pct is a negative number sets it to 0, one whose    *)
(* pct is a number above 100 sets it to 100, and one whose pct is a       *)
(* number in between sets it to that number.                              *)
C22_ProgressInRange ==
  /\ [](exportProgress \in 0..100)
  /\ [][ RanMessage /\ IsProgress(lastEvent'.m) /\ lastEvent'.m.pct.t = "number" =>
           exportProgress' = (IF lastEvent'.m.pct.n < 0 THEN 0
                              ELSE IF lastEvent'.m.pct.n > 100 THEN 100
                              ELSE lastEvent'.m.pct.n) ]_vars

C22_Witness ==
  /\ lastEvent.op = "message"
  /\ IsProgress(lastEvent.m)
  /\ lastEvent.m.pct = JsNumber(150)
  /\ exportProgress = 100
  /\ exportBusy

====
